---- MODULE Spec2Model ----
(***************************************************************************)
(* A model of MUSEpack/ppxf_MC.py: the Monte-Carlo radial-velocity         *)
(* estimator ppxf_MC (the orchestrator and the summarizer) and its         *)
(* bootstrap trial _ppxf_bootstrap.                                        *)
(*                                                                         *)
(* Conventions.                                                            *)
(*  - Arrays are sequences; python index i is index i+1 here.              *)
(*  - Real numbers are scaled integers.  A uniform draw u in [-1,1) is     *)
(*    the integer UDen*u; radial velocities are integers.                  *)
(*  - python's None is a record with isNone = TRUE (arrays) or the         *)
(*    string NoneId (spec_id).                                             *)
(*  - The external fitter ppxf.ppxf is a black box: it returns any         *)
(*    solution whose first entry is in FitRVs, or raises.                  *)
(*  - velscale, degree and vsyst are passed through to the fitter          *)
(*    untouched and are not represented.                                   *)
(***************************************************************************)
EXTENDS Integers, Sequences, FiniteSets, TLC

\* ---------------------------------------------------------------- bounds
MaxNrand == 3       \* nrand is drawn from 0..MaxNrand
MaxCPU == 2         \* n_CPU is drawn from {-1} \cup 1..MaxCPU
SpecLen == 2        \* len(log_spec_f)
MaxEns == 3         \* length of the ensembles the summarizer is started on
HardwareConcurrency == 2   \* os.cpu_count() of the machine

\* ------------------------------------------------------ program constants
NBins == 20          \* bins=int(20)
MaxIters == 5        \* astropy's sigma_clip default maxiters
UDen == 2            \* denominator of the scaled uniform draw

NoneId == "<None>"   \* spec_id=None

VARIABLES
    \* the caller's arguments (objects held by the caller)
    log_template_f, log_spec_f, log_spec_err, guesses, goodpixels_arg,
    nrand, moments, sigma, spec_id, RV_guess_var, n_CPU,
    \* the process environment
    start_method,     \* multiprocessing start method: "fork" or "spawn"
    parent_rng,       \* state of np.random's global generator in the caller
    \* ppxf_MC's frame
    pc, error, noise, goodpixels, uncert_ppxf, consumed,
    clipped, ret, bins, popt, figure, files, retval,
    \* the pool
    pool, wstate, wtask, wrng, next_task,
    \* the trials (one _ppxf_bootstrap call each)
    tstatus, trial_spec, trial_rng, trial_rv_var, fit_start, tresult

callerVars == <<log_template_f, log_spec_f, log_spec_err, guesses,
                goodpixels_arg, nrand, moments, sigma, spec_id,
                RV_guess_var, n_CPU, start_method, parent_rng>>
frameVars == <<pc, error, noise, goodpixels, uncert_ppxf, consumed>>
sumVars == <<clipped, ret, bins, popt, figure, files, retval>>
poolVars == <<pool, wstate, wtask, wrng, next_task>>
trialVars == <<tstatus, trial_spec, trial_rng, trial_rv_var, fit_start,
               tresult>>
vars == <<callerVars, frameVars, sumVars, poolVars, trialVars>>

\* --------------------------------------------------------------- helpers
Workers == 1..MaxCPU
Trials == 1..MaxNrand

SomeArray(a) == [isNone |-> FALSE, val |-> a]
NoArray == [isNone |-> TRUE, val |-> <<>>]

Abs(x) == IF x < 0 THEN -x ELSE x

MaxOf(S) == CHOOSE x \in S : \A y \in S : y <= x

MinOf(S) == CHOOSE x \in S : \A y \in S : x <= y

RECURSIVE SumSeq(_)
SumSeq(s) == IF s = <<>> THEN 0 ELSE Head(s) + SumSeq(Tail(s))

\* ------------------------------------------------------ random generator
(* np.random's global generator: a deterministic function of its state.   *)
(* The state is (stream, pos): the seed it was started from and the number *)
(* of values drawn since.  The output functions stand for the Mersenne     *)
(* twister's: what matters is that equal states give equal draws.          *)
NormalDraw(g, k) == ((g.stream + g.pos + k) % 3) - 1

UniformDraw(g, k) == ((2 * g.stream + g.pos + k) % (2 * UDen)) - UDen

Advance(g, k) == [stream |-> g.stream, pos |-> g.pos + k]

\* The generator a worker process starts with.  fork: a copy of the
\* caller's process image, np.random's state included.  spawn: a fresh
\* interpreter that seeds np.random from the operating system.
WorkerRng(method, parent, w) ==
    IF method = "fork" THEN parent ELSE [stream |-> w, pos |-> 0]

\* ------------------------------------------------------ ppxf_MC, entry
\* np.ones_like(log_spec_f)
OnesLike(a) == [i \in 1..Len(a) |-> 1]

\* np.arange(len(log_spec_f)), as indices of this model
Arange(n) == [i \in 1..n |-> i]

\* goodpixels.any(): None has no attribute any
AnyRaises(gp) == gp.isNone

\* goodpixels.any() == None: any() is a numpy bool, which never equals None
AnyEqualsNone(gp) == FALSE

\* Pool(processes): processes < 1 raises ValueError
PoolRaises(n) == n < 1

PoolSize(n) == n

\* ------------------------------------------------------ _ppxf_bootstrap
\* log_spec_f.copy() left out: the trial writes into the array it was given
CopySpectrum_Alias(a) == [alias |-> TRUE, val |-> a]

\* log_spec_f.copy(): a new array object with the same values.  alias says
\* whether writes to the result reach the object it was made from.
CopySpectrum(a) == [alias |-> FALSE, val |-> a]

\* the normal draws of one trial: np.random.normal(size=len(goodpixels))
NormalDraws(g, gp) == [k \in 1..Len(gp) |-> NormalDraw(g, k - 1)]

\* log_spec_f[goodpixels] = log_spec_f[goodpixels] + n * log_spec_err[goodpixels]
\* (fancy-index assignment: for a repeated index the last write stays)
PerturbSpectrum(spec, gp, n, err) ==
    [i \in 1..Len(spec) |->
        IF \E k \in 1..Len(gp) : gp[k] = i
        THEN LET k == MaxOf({j \in 1..Len(gp) : gp[j] = i})
             IN  spec[i] + n[k] * err[i]
        ELSE spec[i]]

\* rv_var = np.random.uniform(-1.0, 1.0) * RV_guess_var
RvVar(u, var) == (u * var) \div UDen

\* [sum(x) for x in zip(guesses, [rv_var, 0.0])]: zip stops at the shorter
VarGuesses(g, rv_var) ==
    LET add == <<rv_var, 0>>
        n == IF Len(g) < Len(add) THEN Len(g) ELSE Len(add)
    IN  [i \in 1..n |-> g[i] + add[i]]

\* the values a successful fit can return as pp1.sol[0]
FitRVs == {1, 3}

\* pp1.sol of a successful fit whose radial velocity is rv
Sol(rv) == <<rv, 50, 0, 0>>

\* uncert: two entries for moments <= 2, else four
Uncert(sol, m) ==
    IF m <= 2 THEN <<sol[1], sol[2]>> ELSE <<sol[1], sol[2], sol[3], sol[4]>>

\* ------------------------------------------------------ pool.starmap
\* a starmap that hands back whatever exists once a first result is in
StarmapReady_Early(n, st) == \E t \in 1..n : st[t] = "done"

\* a starmap that treats a raised task as a finished one
StarmapReady_IgnoreFailures(n, st) ==
    \A t \in 1..n : st[t] \in {"done", "failed"}

\* starmap returns once every one of the nrand tasks has a result
StarmapReady(n, st) == \A t \in 1..n : st[t] = "done"

\* starmap re-raises a task's exception
StarmapFailed(n, st) == \E t \in 1..n : st[t] = "failed"

\* a pool that is created without the with block and never terminated
PoolExit_Leak(p) == p

\* Pool.__exit__ (leaving the with block, normally or by an exception):
\* terminate(), which stops every worker process
PoolExit(p) == "closed"

\* ------------------------------------------------------ sigma_clip
(* astropy.stats.sigma_clip(data, sigma=sigma, stdfunc=MAD) with its       *)
(* defaults cenfunc='median', maxiters=5, axis=None, masked=True.  sigma   *)
(* is the rational sigma.num / sigma.den.                                  *)
RECURSIVE Insert(_, _)
Insert(x, s) ==
    IF s = <<>> THEN <<x>>
    ELSE IF x <= Head(s) THEN <<x>> \o s
    ELSE <<Head(s)>> \o Insert(x, Tail(s))

RECURSIVE SortAsc(_)
SortAsc(s) == IF s = <<>> THEN <<>> ELSE Insert(Head(s), SortAsc(Tail(s)))

\* twice the median of a non-empty sequence
Median2(s) ==
    LET t == SortAsc(s)
        n == Len(s)
    IN  IF n % 2 = 1 THEN 2 * t[(n + 1) \div 2]
        ELSE t[n \div 2] + t[n \div 2 + 1]

\* four times the median absolute deviation of a non-empty sequence
MAD4(s) ==
    LET m2 == Median2(s)
    IN  Median2([i \in 1..Len(s) |-> Abs(2 * s[i] - m2)])

\* _compute_bounds: median -/+ sigma * MAD, in units of 1/(4 * sigma.den);
\* the median and the MAD of an empty sample are nan
ClipBounds(s, sig) ==
    IF s = <<>> THEN [nan |-> TRUE, lo |-> 0, hi |-> 0]
    ELSE [nan |-> FALSE,
          lo |-> 2 * sig.den * Median2(s) - sig.num * MAD4(s),
          hi |-> 2 * sig.den * Median2(s) + sig.num * MAD4(s)]

\* min_value <= x <= max_value (false for nan bounds)
Inside(x, b, sig) ==
    /\ ~b.nan
    /\ b.lo <= 4 * sig.den * x
    /\ 4 * sig.den * x <= b.hi

Keep(f, b, sig) == SelectSeq(f, LAMBDA x : Inside(x, b, sig))

\* the while loop of _sigmaclip_noaxis, entered with `it` iterations done:
\* the bounds of its last iteration
RECURSIVE ClipLoop(_, _, _)
ClipLoop(f, sig, it) ==
    LET b == ClipBounds(f, sig)
        g == Keep(f, b, sig)
        nchanged == Len(f) - Len(g)
    IN  IF nchanged # 0 /\ it + 1 < MaxIters
        THEN ClipLoop(g, sig, it + 1)
        ELSE b

\* A mask that also drops the values lying exactly on the last bounds
\* (data <= min_value or data >= max_value), unlike the loop's filter.
SigmaClip_StrictMask(data, sig) ==
    LET b == ClipLoop(data, sig, 0)
    IN  SelectSeq(data, LAMBDA x :
            b.nan \/ (b.lo < 4 * sig.den * x /\ 4 * sig.den * x < b.hi))

\* clipped.data[~clipped.mask]: the mask is data < min_value or
\* data > max_value for the last bounds (no value is masked by nan bounds)
SigmaClip(data, sig) ==
    LET b == ClipLoop(data, sig, 0)
    IN  SelectSeq(data, LAMBDA x : b.nan \/ Inside(x, b, sig))

\* The last round of the same loop: the sample it worked on and the number
\* of values it removed (nchanged # 0 there means maxiters stopped the loop).
RECURSIVE ClipLast(_, _, _)
ClipLast(f, sig, it) ==
    LET b == ClipBounds(f, sig)
        g == Keep(f, b, sig)
        nchanged == Len(f) - Len(g)
    IN  IF nchanged # 0 /\ it + 1 < MaxIters
        THEN ClipLast(g, sig, it + 1)
        ELSE [sample |-> f, nchanged |-> nchanged]

\* The loop stopped because a round removed nothing, and the values of data
\* within that round's bounds are exactly that round's sample.
ClipSettled(data, sig) ==
    LET r == ClipLast(data, sig, 0)
    IN  /\ r.nchanged = 0
        /\ Keep(data, ClipBounds(r.sample, sig), sig) = r.sample

\* np.array(uncert_ppxf)[:, 0]
Column0(m) == [i \in 1..Len(m) |-> m[i][1]]

\* ------------------------------------------------------ histogram and fit
(* Edges and centres are in units of 1/(2 * NBins); a density is the       *)
(* fraction num/den, and a fraction with den = 0 is nan.                   *)
ESc == 2 * NBins

SetOf(s) == {s[i] : i \in 1..Len(s)}

\* first edge of np.histogram's range: (0, 1) for an empty sample,
\* (min - 0.5, max + 0.5) when min = max
HistLo(c) ==
    IF c = <<>> THEN 0
    ELSE IF MinOf(SetOf(c)) = MaxOf(SetOf(c)) THEN ESc * MinOf(SetOf(c)) - NBins
    ELSE ESc * MinOf(SetOf(c))

\* bin width
HistWidth(c) ==
    IF c = <<>> \/ MinOf(SetOf(c)) = MaxOf(SetOf(c)) THEN ESc \div NBins
    ELSE (ESc * (MaxOf(SetOf(c)) - MinOf(SetOf(c)))) \div NBins

\* the bin of x: the last bin is closed on the right
BinOf(x, c, nb) ==
    LET i == ((ESc * x - HistLo(c)) \div HistWidth(c)) + 1
    IN  IF i > nb THEN nb ELSE i

\* np.histogram(c, bins=nb, density=True): (density, edges)
Histogram(c, nb) ==
    LET count(i) == Cardinality({k \in 1..Len(c) : BinOf(c[k], c, nb) = i})
    IN  [isNone |-> FALSE,
         density |-> [i \in 1..nb |->
                        [num |-> count(i) * ESc, den |-> Len(c) * HistWidth(c)]],
         edges |-> [i \in 1..(nb + 1) |-> HistLo(c) + (i - 1) * HistWidth(c)]]

\* a plt.hist call that leaves density at its default: raw counts
PltHist_Counts(c, nb, label) ==
    [Histogram(c, nb) EXCEPT
        !.density = [i \in 1..nb |->
                       [num |-> Histogram(c, nb).density[i].num,
                        den |-> ESc]]]

\* plt.hist(c, bins=nb, density=True, label=...): the histogram of
\* np.histogram, drawn on the current figure
PltHist(c, nb, label) == Histogram(c, nb)

\* [ret[1][i] + 0.5 * (ret[1][i + 1] - ret[1][i]) for i in range(len(ret[0]))]
BinCentres(r) ==
    [i \in 1..Len(r.density) |->
        r.edges[i] + (r.edges[i + 1] - r.edges[i]) \div 2]

\* np.max(ret[0])
MaxDensity(r) ==
    [num |-> MaxOf({r.density[i].num : i \in 1..Len(r.density)}),
     den |-> r.density[1].den]

\* np.mean(clipped)
Mean(c) == [num |-> SumSeq(c), den |-> Len(c)]

\* np.std(clipped), as its square
StdSq(c) ==
    [num |-> Len(c) * SumSeq([i \in 1..Len(c) |-> c[i] * c[i]])
               - SumSeq(c) * SumSeq(c),
     den |-> Len(c) * Len(c)]

\* Model(_gaussian_fit).fit(y, x=x, a=a0, b=b0, c=c0): the least-squares
\* problem; lmfit's answer is a function of it
GaussFit(y, x, a0, b0, c0) == [y |-> y, x |-> x, a |-> a0, b |-> b0, c |-> c0]

\* the data or a starting value of the problem is nan
FitIsNaN(p) == p.a.den = 0 \/ p.b.den = 0 \/ p.c.den = 0

\* [result.best_values["a"], result.best_values["b"], result.best_values["c"]]
BestValues(p) ==
    [isNone |-> FALSE,
     val |-> <<[par |-> "a", of |-> p], [par |-> "b", of |-> p],
               [par |-> "c", of |-> p]>>]

\* lines 123-130: the branch taken when spec_id is unset
SummaryUnset(c) ==
    LET r == Histogram(c, NBins)
        b == BinCentres(r)
    IN  [ret |-> r, bins |-> b,
         fit |-> GaussFit(r.density, b, MaxDensity(r), Mean(c), StdSq(c))]

\* lines 132-141: the branch taken when spec_id is set
SummarySet(c, id, n) ==
    LET r == PltHist(c, NBins, n)
        b == BinCentres(r)
    IN  [ret |-> r, bins |-> b,
         fit |-> GaussFit(r.density, b, MaxDensity(r), Mean(c), StdSq(c))]

\* `not spec_id`: None and the empty string are falsy
NotSpecId(id) == id = NoneId \/ id = ""

\* spec_id + "_v_dist.png"
PlotFile(id) == id \o "_v_dist.png"

\* ------------------------------------------------------ initial states
Spectrum0 == [i \in 1..SpecLen |-> 3 + 2 * i]

Template0 == [i \in 1..SpecLen |-> 4 + i]

Errors0 == [i \in 1..SpecLen |-> i]

\* None, the last pixel alone, or every pixel
Masks == {NoArray, SomeArray(<<SpecLen>>), SomeArray(Arange(SpecLen))}

\* (guesses, moments): [RV, dispersion] or [RV, dispersion, h3, h4]
GuessCases == {[g |-> <<10, 50>>, m |-> 2], [g |-> <<10, 50, 1, 2>>, m |-> 4]}

Sigmas ==
    {[num |-> 0, den |-> 1], [num |-> 1, den |-> 2], [num |-> 1, den |-> 1],
     [num |-> 5, den |-> 1]}

SpecIds == {NoneId, "", "s1"}

NoHist == [isNone |-> TRUE]

NoRng == [stream |-> 0, pos |-> 0]

InitFrame ==
    /\ error = "none"
    /\ noise = NoArray
    /\ consumed = 0
    /\ clipped = NoArray
    /\ ret = NoHist
    /\ bins = NoArray
    /\ popt = NoHist
    /\ figure = "none"
    /\ files = {}
    /\ retval = NoArray

InitPool ==
    /\ wstate = [w \in Workers |-> "absent"]
    /\ wtask = [w \in Workers |-> 0]
    /\ wrng = [w \in Workers |-> NoRng]
    /\ next_task = 1

InitTrials(st) ==
    /\ tstatus = [t \in Trials |-> st]
    /\ trial_spec = [t \in Trials |-> <<>>]
    /\ trial_rng = [t \in Trials |-> NoRng]
    /\ trial_rv_var = [t \in Trials |-> 0]
    /\ fit_start = [t \in Trials |-> <<>>]
    /\ tresult = [t \in Trials |-> <<>>]

Init ==
    /\ log_template_f = Template0
    /\ log_spec_f = Spectrum0
    /\ log_spec_err = Errors0
    /\ \E c \in GuessCases : guesses = c.g /\ moments = c.m
    /\ goodpixels_arg \in Masks
    /\ nrand \in 0..MaxNrand
    /\ sigma = [num |-> 5, den |-> 1]
    /\ spec_id \in {NoneId, "s1"}
    /\ RV_guess_var \in {0, 2}
    /\ n_CPU \in {-1} \cup (1..MaxCPU)
    /\ start_method \in {"fork", "spawn"}
    /\ parent_rng = [stream |-> 0, pos |-> 1]
    /\ pc = "entry"
    /\ goodpixels = goodpixels_arg
    /\ uncert_ppxf = NoArray
    /\ pool = "none"
    /\ InitFrame
    /\ InitPool
    /\ InitTrials("none")

\* ------------------------------------------------------ ppxf_MC
Raise(e) == pc' = "raised" /\ error' = e

\* lines 95-114: the noise array, the default mask, the argument list
Enter ==
    /\ pc = "entry"
    /\ IF AnyRaises(goodpixels)
       THEN /\ Raise("AttributeError")
            /\ UNCHANGED <<noise, goodpixels>>
       ELSE /\ pc' = "pool"
            /\ noise' = SomeArray(OnesLike(log_spec_f))
            /\ goodpixels' = IF AnyEqualsNone(goodpixels)
                             THEN SomeArray(Arange(Len(log_spec_f)))
                             ELSE goodpixels
            /\ UNCHANGED error
    /\ UNCHANGED <<callerVars, uncert_ppxf, consumed, sumVars, poolVars,
                   trialVars>>

\* line 116: with Pool(n_CPU) as pool
PoolCreate ==
    /\ pc = "pool"
    /\ IF PoolRaises(n_CPU)
       THEN /\ Raise("ValueError")
            /\ UNCHANGED <<pool, wstate, wrng, tstatus>>
       ELSE /\ pc' = "map"
            /\ pool' = "open"
            /\ wstate' = [w \in Workers |->
                            IF w <= PoolSize(n_CPU) THEN "idle" ELSE "absent"]
            /\ wrng' = [w \in Workers |->
                            IF w <= PoolSize(n_CPU)
                            THEN WorkerRng(start_method, parent_rng, w)
                            ELSE NoRng]
            /\ tstatus' = [t \in Trials |->
                            IF t <= nrand THEN "queued" ELSE "none"]
            /\ UNCHANGED error
    /\ UNCHANGED <<callerVars, noise, goodpixels, uncert_ppxf, consumed,
                   sumVars, wtask, next_task, trial_spec, trial_rng,
                   trial_rv_var, fit_start, tresult>>

\* lines 228-234 in worker w: the next task of line 117's starmap
TrialPerturb(w) ==
    /\ pc = "map" /\ pool = "open"
    /\ wstate[w] = "idle"
    /\ next_task <= nrand
    /\ LET t == next_task
           g == wrng[w]
           gp == goodpixels.val
           local == CopySpectrum(log_spec_f)
           new == PerturbSpectrum(local.val, gp, NormalDraws(g, gp),
                                  log_spec_err)
           rv_var == RvVar(UniformDraw(g, Len(gp)), RV_guess_var)
       IN  /\ trial_spec' = [trial_spec EXCEPT ![t] = new]
           /\ log_spec_f' = IF local.alias THEN new ELSE log_spec_f
           /\ trial_rng' = [trial_rng EXCEPT ![t] = g]
           /\ wrng' = [wrng EXCEPT ![w] = Advance(g, Len(gp) + 1)]
           /\ trial_rv_var' = [trial_rv_var EXCEPT ![t] = rv_var]
           /\ fit_start' = [fit_start EXCEPT ![t] = VarGuesses(guesses, rv_var)]
           /\ tstatus' = [tstatus EXCEPT ![t] = "fitting"]
           /\ wstate' = [wstate EXCEPT ![w] = "busy"]
           /\ wtask' = [wtask EXCEPT ![w] = t]
           /\ next_task' = next_task + 1
    /\ UNCHANGED <<log_template_f, log_spec_err, guesses, goodpixels_arg,
                   nrand, moments, sigma, spec_id, RV_guess_var, n_CPU,
                   start_method, parent_rng, frameVars, sumVars, pool,
                   tresult>>

\* lines 236-258 in worker w: the fit succeeds with radial velocity rv
TrialFitOk(w) ==
    /\ pc = "map" /\ pool = "open"
    /\ wstate[w] = "busy"
    /\ \E rv \in FitRVs :
         tresult' = [tresult EXCEPT ![wtask[w]] = Uncert(Sol(rv), moments)]
    /\ tstatus' = [tstatus EXCEPT ![wtask[w]] = "done"]
    /\ wstate' = [wstate EXCEPT ![w] = "idle"]
    /\ wtask' = [wtask EXCEPT ![w] = 0]
    /\ UNCHANGED <<callerVars, frameVars, sumVars, pool, wrng, next_task,
                   trial_spec, trial_rng, trial_rv_var, fit_start>>

\* lines 236-251 in worker w: ppxf.ppxf raises
TrialFitRaise(w) ==
    /\ pc = "map" /\ pool = "open"
    /\ wstate[w] = "busy"
    /\ tstatus' = [tstatus EXCEPT ![wtask[w]] = "failed"]
    /\ wstate' = [wstate EXCEPT ![w] = "idle"]
    /\ wtask' = [wtask EXCEPT ![w] = 0]
    /\ UNCHANGED <<callerVars, frameVars, sumVars, pool, wrng, next_task,
                   trial_spec, trial_rng, trial_rv_var, fit_start, tresult>>

\* the workers after Pool.__exit__
Terminated(p, ws) ==
    [w \in Workers |-> IF p = "closed" /\ ws[w] # "absent" THEN "dead" ELSE ws[w]]

\* lines 116-117: starmap returns the nrand results and the with block ends
StarmapReturn ==
    /\ pc = "map"
    /\ StarmapReady(nrand, tstatus)
    /\ uncert_ppxf' = SomeArray([t \in 1..nrand |-> tresult[t]])
    /\ pool' = PoolExit(pool)
    /\ wstate' = Terminated(pool', wstate)
    /\ pc' = "clip"
    /\ UNCHANGED <<callerVars, error, noise, goodpixels, consumed, sumVars,
                   wtask, wrng, next_task, trialVars>>

\* lines 116-117: starmap raises a trial's exception, which leaves the with
\* block and ppxf_MC; trials still running are stopped with their workers
StarmapRaise ==
    /\ pc = "map"
    /\ StarmapFailed(nrand, tstatus)
    /\ pool' = PoolExit(pool)
    /\ wstate' = Terminated(pool', wstate)
    /\ tstatus' = [t \in Trials |->
                     IF pool' = "closed" /\ tstatus[t] = "fitting"
                     THEN "killed" ELSE tstatus[t]]
    /\ Raise("FitError")
    /\ UNCHANGED <<callerVars, noise, goodpixels, uncert_ppxf, consumed,
                   sumVars, wtask, wrng, next_task, trial_spec, trial_rng,
                   trial_rv_var, fit_start, tresult>>

\* lines 119-120: sigma-clip column 0 of the ensemble; an ensemble without
\* rows is a one-dimensional array, and [:, 0] raises IndexError
Clip ==
    /\ pc = "clip"
    /\ IF uncert_ppxf.val = <<>>
       THEN /\ Raise("IndexError")
            /\ UNCHANGED <<clipped, consumed>>
       ELSE /\ clipped' = SomeArray(SigmaClip(Column0(uncert_ppxf.val), sigma))
            /\ consumed' = consumed + 1
            /\ pc' = "hist"
            /\ UNCHANGED error
    /\ UNCHANGED <<callerVars, noise, goodpixels, uncert_ppxf, ret, bins,
                   popt, figure, files, retval, poolVars, trialVars>>

\* what lines 122-141 compute
Summary == IF NotSpecId(spec_id) THEN SummaryUnset(clipped.val)
           ELSE SummarySet(clipped.val, spec_id, nrand)

\* lines 122-141: the histogram, the bin centres and the Gaussian fit;
\* lmfit raises ValueError for data or starting values that are nan
HistFit ==
    /\ pc = "hist"
    /\ ret' = Summary.ret
    /\ bins' = SomeArray(Summary.bins)
    /\ figure' = IF NotSpecId(spec_id) THEN figure ELSE spec_id
    /\ IF FitIsNaN(Summary.fit)
       THEN /\ Raise("ValueError")
            /\ UNCHANGED popt
       ELSE /\ popt' = BestValues(Summary.fit)
            /\ pc' = IF NotSpecId(spec_id) THEN "return" ELSE "plot"
            /\ UNCHANGED error
    /\ UNCHANGED <<callerVars, noise, goodpixels, uncert_ppxf, consumed,
                   clipped, files, retval, poolVars, trialVars>>

\* lines 143-168: the curve, the markers, the file, and the figure closed
PlotSave ==
    /\ pc = "plot"
    /\ files' = files \cup {PlotFile(spec_id)}
    /\ figure' = "none"
    /\ pc' = "return"
    /\ UNCHANGED <<callerVars, error, noise, goodpixels, uncert_ppxf,
                   consumed, clipped, ret, bins, popt, retval, poolVars,
                   trialVars>>

\* line 170: return popt[1], popt[2]
Return ==
    /\ pc = "return"
    /\ retval' = SomeArray(<<popt.val[2], popt.val[3]>>)
    /\ pc' = "done"
    /\ UNCHANGED <<callerVars, error, noise, goodpixels, uncert_ppxf,
                   consumed, clipped, ret, bins, popt, figure, files,
                   poolVars, trialVars>>

SumNext ==
    \/ Clip
    \/ HistFit
    \/ PlotSave
    \/ Return

Next ==
    \/ Enter
    \/ PoolCreate
    \/ \E w \in Workers : TrialPerturb(w)
    \/ \E w \in Workers : TrialFitOk(w)
    \/ \E w \in Workers : TrialFitRaise(w)
    \/ StarmapReturn
    \/ StarmapRaise
    \/ SumNext

Spec == Init /\ [][Next]_vars

\* ------------------------------------------------------ the summarizer alone
(* The summarizer started on an ensemble: ppxf_MC at line 119, with the    *)
(* pool closed and uncert_ppxf any ensemble of at most MaxEns rows, or the *)
(* ensemble whose radial velocities are ChainRVs.                          *)
SumRVs == {1, 2, 3, 6}

RECURSIVE Repeat(_, _)
Repeat(x, n) == IF n = 0 THEN <<>> ELSE <<x>> \o Repeat(x, n - 1)

\* 32 radial velocities around 100 that sigma = 1/2 clips in five rounds
ChainRVs ==
    <<99, 101, 97, 103>> \o Repeat(91, 2) \o Repeat(109, 2)
        \o Repeat(73, 4) \o Repeat(127, 4) \o Repeat(19, 8) \o Repeat(181, 8)

\* An ensemble that sigma = 5 is still shrinking after maxiters rounds:
\* 8 -> 7 -> 6 -> 5 -> 4 -> 3 values, and <<0, 0, 1>> has MAD 0.
ShrinkRVs == <<0, 0, 1, 5, 14, 26, 31, 77>>

RVSeqs ==
    UNION {[1..n -> SumRVs] : n \in 1..MaxEns} \cup {ChainRVs, ShrinkRVs}

SumInit ==
    /\ log_template_f = Template0
    /\ log_spec_f = Spectrum0
    /\ log_spec_err = Errors0
    /\ guesses = <<10, 50>> /\ moments = 2
    /\ goodpixels_arg = SomeArray(Arange(SpecLen))
    /\ \E rvs \in RVSeqs :
         /\ nrand = Len(rvs)
         /\ uncert_ppxf =
              SomeArray([i \in 1..Len(rvs) |-> Uncert(Sol(rvs[i]), moments)])
    /\ sigma \in Sigmas
    /\ spec_id \in SpecIds
    /\ RV_guess_var = 0
    /\ n_CPU = 1
    /\ start_method = "fork"
    /\ parent_rng = NoRng
    /\ pc = "clip"
    /\ goodpixels = goodpixels_arg
    /\ pool = "closed"
    /\ wstate = [w \in Workers |-> IF w <= n_CPU THEN "dead" ELSE "absent"]
    /\ wtask = [w \in Workers |-> 0]
    /\ wrng = [w \in Workers |-> NoRng]
    /\ next_task = nrand + 1
    /\ InitFrame
    /\ InitTrials("done")

SumSpec == SumInit /\ [][SumNext]_vars

\* ------------------------------------------------------ properties
Started(t) == tstatus[t] \in {"fitting", "done", "failed", "killed"}

InSummarizer == pc \in {"hist", "plot", "return", "done"}

AfterStarmap == pc \in {"clip", "hist", "plot", "return", "done"}

\* C1: once a trial has failed, ppxf_MC can only fail: it is still inside
\* starmap or has raised the trial's failure; the ensemble is never built,
\* the summarizer never runs and nothing is returned; the failed trial has
\* no result, default or otherwise, and is not run again.
C1_FailedTrialFailsCall ==
    \A t \in 1..nrand :
        tstatus[t] = "failed" =>
            /\ pc \in {"map", "raised"}
            /\ pc = "raised" => error = "FitError"
            /\ uncert_ppxf.isNone
            /\ consumed = 0
            /\ clipped.isNone /\ ret.isNone /\ popt.isNone
            /\ retval.isNone
            /\ tresult[t] = <<>>
            /\ \A w \in Workers : wtask[w] # t
            /\ t < next_task

C1_Witness ==
    /\ pc = "raised" /\ error = "FitError"
    /\ \E t1, t2 \in 1..nrand : tstatus[t1] = "failed" /\ tstatus[t2] = "done"

\* C2: the summarizer starts only after all nrand trials have completed; the
\* ensemble it reads has one row per trial, the trial's result; sigma-clipping
\* reads it at most once, and exactly once before anything is returned.
C2_Barrier ==
    /\ consumed <= 1
    /\ (AfterStarmap \/ consumed > 0 \/ ~uncert_ppxf.isNone) =>
          /\ \A t \in 1..nrand : tstatus[t] = "done"
          /\ \A w \in Workers : wstate[w] # "busy"
          /\ Len(uncert_ppxf.val) = nrand
          /\ \A t \in 1..nrand : uncert_ppxf.val[t] = tresult[t]
    /\ InSummarizer => consumed = 1
    /\ ~retval.isNone => pc = "done"

C2_Witness ==
    /\ pc = "hist" /\ consumed = 1
    /\ nrand >= 2 /\ Len(uncert_ppxf.val) = nrand
    /\ uncert_ppxf.val[1] # uncert_ppxf.val[2]

\* C3: no two trials of one call draw from the same generator state.
C3_IndependentDraws ==
    \A t1, t2 \in 1..nrand :
        (t1 # t2 /\ Started(t1) /\ Started(t2)) =>
            trial_rng[t1] # trial_rng[t2]

\* C4: with n_CPU = -1 the pool is created with as many workers as the
\* machine has processors, and with a positive n_CPU with at most n_CPU
\* workers; pool creation does not fail for the default.
C4_UseAllCores ==
    (pc \notin {"entry", "pool"} /\ error # "AttributeError") =>
        /\ n_CPU = -1 =>
              /\ error # "ValueError"
              /\ Cardinality({w \in Workers : wstate[w] # "absent"})
                    = HardwareConcurrency
        /\ n_CPU >= 1 =>
              Cardinality({w \in Workers : wstate[w] # "absent"}) <= n_CPU

\* C5: the pool exists only while ppxf_MC is inside starmap: none before,
\* and every worker stopped once the summarizer runs or the call has ended
\* by returning or raising.
C5_PoolScoped ==
    /\ pc \in {"entry", "pool"} => pool = "none"
    /\ pool = "open" => pc = "map"
    /\ pc # "map" => \A w \in Workers : wstate[w] \in {"absent", "dead"}
    /\ (AfterStarmap \/ (pc = "raised" /\ error \in {"FitError", "IndexError"}))
          => pool = "closed"

C5_Witness ==
    /\ pc = "raised" /\ error = "FitError"
    /\ pool = "closed"
    /\ \E t \in 1..nrand : tstatus[t] = "killed"
    /\ \E w \in Workers : wstate[w] = "dead"

\* C6: an unset mask becomes the full index range and the trials are
\* dispatched; a mask that is given is used as it is.
C6_DefaultMask ==
    pc # "entry" =>
        IF goodpixels_arg.isNone
        THEN error # "AttributeError"
             /\ goodpixels = SomeArray(Arange(Len(log_spec_f)))
        ELSE goodpixels = goodpixels_arg

\* C7: the guess given to the fitter is the caller's guess, of the same
\* length, with one perturbation in [-RV_guess_var, RV_guess_var] added to
\* its first component and every other component unchanged.
C7_GuessPerturbation ==
    \A t \in 1..nrand :
        Started(t) =>
            /\ Abs(trial_rv_var[t]) <= RV_guess_var
            /\ Len(fit_start[t]) = Len(guesses)
            /\ fit_start[t][1] = guesses[1] + trial_rv_var[t]
            /\ \A i \in 2..Len(guesses) : fit_start[t][i] = guesses[i]

\* the copy of trial t differs from the observed spectrum only at masked
\* indices, by the trial's draw times the pixel's error
PrivateCopyOk(t) ==
    /\ Len(trial_spec[t]) = SpecLen
    /\ \A i \in 1..SpecLen :
         IF \E k \in 1..Len(goodpixels.val) : goodpixels.val[k] = i
         THEN \E k \in 1..Len(goodpixels.val) :
                /\ goodpixels.val[k] = i
                /\ trial_spec[t][i] =
                      Spectrum0[i] + NormalDraw(trial_rng[t], k - 1) * Errors0[i]
         ELSE trial_spec[t][i] = Spectrum0[i]

\* C8: the template, the spectrum, the errors, the mask and the guesses the
\* caller holds never change, and every trial's private copy differs from
\* the observed spectrum only at the indices of the mask, where it is
\* spec[i] + n_i * error[i].
C8_InputsNotMutated ==
    /\ [](/\ log_template_f = Template0
          /\ log_spec_f = Spectrum0
          /\ log_spec_err = Errors0
          /\ \A t \in 1..nrand : Started(t) => PrivateCopyOk(t))
    /\ [][goodpixels_arg' = goodpixels_arg /\ guesses' = guesses]_vars

C8_Witness ==
    /\ goodpixels.val = <<SpecLen>>
    /\ \E t1, t2 \in 1..nrand :
         /\ t1 # t2
         /\ tstatus[t1] = "done" /\ Started(t2)
         /\ trial_spec[t1][SpecLen] # Spectrum0[SpecLen]
         /\ trial_spec[t2] # trial_spec[t1]

\* C9: when sigma-clipping keeps no value, ppxf_MC raises an empty-ensemble
\* error before a histogram is built or a fit is made, and returns nothing.
C9_EmptyEnsembleRaises ==
    (~clipped.isNone /\ clipped.val = <<>>) =>
        /\ ret.isNone /\ bins.isNone /\ popt.isNone
        /\ retval.isNone
        /\ pc = "hist" \/ (pc = "raised" /\ error = "EmptyEnsembleError")

\* C10: the retained sample, the histogram, the bin centres, the fit and the
\* returned pair are those of the branch without an identifier and those of
\* the branch with one, whatever spec_id is; the file <spec_id>_v_dist.png
\* exists after the call if and only if spec_id is a non-empty identifier,
\* and no other file does.
C10_SpecIdNoInfluence ==
    LET c == SigmaClip(Column0(uncert_ppxf.val), sigma)
        u == SummaryUnset(c)
        p == SummarySet(c, spec_id, nrand)
    IN  /\ ~clipped.isNone => clipped.val = c
        /\ ~ret.isNone => ret = u.ret /\ ret = p.ret
        /\ ~bins.isNone => bins.val = u.bins /\ bins.val = p.bins
        /\ ~popt.isNone =>
              popt = BestValues(u.fit) /\ popt = BestValues(p.fit)
        /\ pc = "done" =>
              /\ retval.val = <<BestValues(u.fit).val[2], BestValues(u.fit).val[3]>>
              /\ retval.val = <<BestValues(p.fit).val[2], BestValues(p.fit).val[3]>>
              /\ files = IF NotSpecId(spec_id) THEN {} ELSE {PlotFile(spec_id)}
        /\ pc # "done" => \/ files = {}
                          \/ pc = "return" /\ files = {PlotFile(spec_id)}

C10_Witness ==
    /\ pc = "done"
    /\ spec_id = "s1" /\ files = {"s1_v_dist.png"}
    /\ Len(clipped.val) < nrand /\ Len(clipped.val) > 1

\* C11 as stated: for every ensemble and every threshold, clipping the
\* retained values again at the same threshold removes nothing further.
C11_ClipIdempotent ==
    ~clipped.isNone => SigmaClip(clipped.val, sigma) = clipped.val

\* C11: clipping the retained values again at the same threshold removes
\* nothing further whenever the first clipping stopped because a round
\* removed nothing and retained exactly that round's sample (it can remove
\* more when the limit of five rounds stopped the first clipping).
C11_SettledClipIdempotent ==
    (~clipped.isNone /\ ClipSettled(Column0(uncert_ppxf.val), sigma)) =>
        SigmaClip(clipped.val, sigma) = clipped.val

C11_Witness ==
    /\ ~clipped.isNone
    /\ ClipSettled(Column0(uncert_ppxf.val), sigma)
    /\ Len(clipped.val) > 1 /\ Len(clipped.val) < nrand
    /\ SigmaClip(clipped.val, sigma) = clipped.val

====
